---- MODULE Spec2Model ----
(***************************************************************************)
(* A model of pypov.py: the ImageToLed polar sampler, the sweep that       *)
(* builds the LED colour table, and the interactive loop of __main__.      *)
(*                                                                         *)
(* Number representation.  The program computes with Python floats; the    *)
(* model computes with exact integers:                                     *)
(*   - an angle in radians is held as the number of degrees it stands for  *)
(*     (the value is that number times pi/180), as a fraction <<num, den>>;*)
(*   - sin and cos are read from a table of values rounded to 1/1000;      *)
(*   - a coordinate x is held as the integer x * PosDen;                   *)
(*   - redValue, greenValue, blueValue hold 255 times the float of the     *)
(*     code, and a returned colour holds its three numerators together     *)
(*     with the denominator 255 * numberOfAveragedPixels.                  *)
(***************************************************************************)
EXTENDS Integers, Sequences, FiniteSets, TLC

VARIABLES
    pc,                   \* where the program (or the caller of the sampler) is
    img,                  \* the global image: [w, h, px], px[<<x, y>>] = <<r, g, b, a>>
    backgroundFrameColor, \* the global background colour <<r, g, b>>
    self,                 \* the ImageToLed object's fields
    frame,                \* the locals of the running getLedColor call
    averageColor,         \* what the last getLedColor call returned
    sweep,                \* the locals of the running getLedColors call
    args,                 \* __main__: the parsed command line
    ledIdx,               \* __main__: loop variable of the table construction
    ledColors,            \* __main__: the colour table
    angle,                \* __main__: the current display angle
    raster,               \* __main__: raster mode
    running,              \* __main__: loop flag
    drawAverageArea,      \* __main__: overlay flag
    invoked               \* the ImageToLed methods the last step called

vars == <<pc, img, backgroundFrameColor, self, frame, averageColor, sweep, args,
          ledIdx, ledColors, angle, raster, running, drawAverageArea, invoked>>

mainVars == <<args, ledIdx, ledColors, angle, raster, running, drawAverageArea>>

(***************************************************************************)
(* Bounds of the model.                                                    *)
(***************************************************************************)
MaxDim == 2            \* image width and height range over 1..MaxDim
MaxPoints == 2         \* requested point counts range over 0..MaxPoints
MaxRadius == 1         \* query radii range over 0..MaxRadius
AngleGrain == 60       \* query angles are the multiples of AngleGrain below 360
MaxLeds == 1           \* __main__: number of LEDs ranges over 1..MaxLeds
MaxEventsPerFrame == 2 \* events delivered to one frame
MaxAngle == 362        \* the display angle is followed while |angle| <= MaxAngle

(***************************************************************************)
(* Program constants.                                                      *)
(***************************************************************************)
FullCircle == 360
OpaqueAlpha == 255
AlphaScale == 255

RED == <<255, 0, 0>>
BLUE == <<0, 0, 255>>
WHITE == <<255, 255, 255>>
BLACK == <<0, 0, 0>>

(***************************************************************************)
(* math.sin and math.cos at whole degrees, times TrigScale.                *)
(***************************************************************************)
SinTable ==
    <<0, 17, 35, 52, 70, 87, 105, 122, 139, 156, 174, 191, 208,
      225, 242, 259, 276, 292, 309, 326, 342, 358, 375, 391, 407, 423,
      438, 454, 469, 485, 500, 515, 530, 545, 559, 574, 588, 602, 616,
      629, 643, 656, 669, 682, 695, 707, 719, 731, 743, 755, 766, 777,
      788, 799, 809, 819, 829, 839, 848, 857, 866, 875, 883, 891, 899,
      906, 914, 921, 927, 934, 940, 946, 951, 956, 961, 966, 970, 974,
      978, 982, 985, 988, 990, 993, 995, 996, 998, 999, 999, 1000, 1000>>

Sin(deg) ==
    LET d == deg % 360
    IN  IF d <= 90 THEN SinTable[d + 1]
        ELSE IF d <= 180 THEN SinTable[180 - d + 1]
        ELSE IF d <= 270 THEN -SinTable[d - 180 + 1]
        ELSE -SinTable[360 - d + 1]

Cos(deg) == Sin(deg + 90)

\* the scale of the table: the entry of sin(90 degrees) = 1
TrigScale == SinTable[91]

\* int(): truncation towards zero of the fraction n / d, d > 0
Truncate(n, d) == IF n >= 0 THEN n \div d ELSE -((-n) \div d)

(***************************************************************************)
(* ImageToLed.__init__                                                     *)
(***************************************************************************)
\* the bug of keeping the requested count
CoercePoints_Kept(points) == points

\* lines 30-31 and 40-41: an even count is made odd
CoercePoints(points) == IF points % 2 = 0 THEN points + 1 ELSE points

\* lines 32-36 and 42-46: span / (points - 1), or 0 for a single point
Resolution(span, points) ==
    IF points > 1 THEN <<span, points - 1>> ELSE <<0, 1>>

ImageToLed(angleAverageSpan, angleAveragePoints, rAverageSpan, rAveragePoints) ==
    LET ap == CoercePoints(angleAveragePoints)
        rp == CoercePoints(rAveragePoints)
    IN  [angleAverageResolution |-> Resolution(angleAverageSpan, ap),
         rAverageResolution     |-> Resolution(rAverageSpan, rp),
         angleAveragePoints     |-> ap,
         rAveragePoints         |-> rp,
         numberOfAveragedPixels |-> ap * rp,
         img                    |-> "None",
         imgBound               |-> "None"]

\* pygame's Surface.get_rect(): a rectangle at the origin; centerx is left + w // 2
GetRect(image) ==
    [width |-> image.w, height |-> image.h,
     centerx |-> image.w \div 2, centery |-> image.h \div 2]

setImage(obj, image) ==
    [obj EXCEPT !.img = "img", !.imgBound = GetRect(image)]

(***************************************************************************)
(* ImageToLed.getLedColorArea                                              *)
(***************************************************************************)
\* the denominator of every coordinate: dr is a multiple of 1/(2*den of the
\* radial resolution) and the trigonometric values are multiples of 1/TrigScale
PosDen == 2 * self.rAverageResolution[2] * TrigScale

\* the bug of centring on points / 2
Offset2_OffCentre(res, i, points) == res[1] * (2 * i - points)

\* line 69: resolution * (t - (points - 1) / 2), as a fraction over 2 * den
Offset2(res, i, points) == res[1] * (2 * i - (points - 1))

\* lines 67-69: the sample angle in whole degrees (t counts from 0)
SampleAngle(queryAngle, t) ==
    LET res == self.angleAverageResolution
    IN  (2 * res[2] * queryAngle + Offset2(res, t, self.angleAveragePoints))
            \div (2 * res[2])

\* lines 72-73: the sample radius times 2 * den (r counts from 0)
SampleRadius2(ledRPosition, r) ==
    LET res == self.rAverageResolution
    IN  2 * res[2] * ledRPosition + Offset2(res, r, self.rAveragePoints)

\* lines 74-79
SamplePoint(queryAngle, ledRPosition, t, r) ==
    LET dangle == SampleAngle(queryAngle, t)
        dr2    == SampleRadius2(ledRPosition, r)
        x      == self.imgBound.centerx * PosDen + dr2 * Cos(dangle)
        y0     == self.imgBound.centery * PosDen + dr2 * Sin(dangle)
    IN  <<x, self.imgBound.height * PosDen - y0>>

getLedColorArea(queryAngle, ledRPosition) ==
    [t \in 1..self.angleAveragePoints |->
        [r \in 1..self.rAveragePoints |->
            SamplePoint(queryAngle, ledRPosition, t - 1, r - 1)]]

(***************************************************************************)
(* ImageToLed.getLedColor                                                  *)
(***************************************************************************)
\* a pixel value is [c |-> <<r, g, b, a>>, kind |-> ...]: a pygame Color can be
\* written in place, a tuple cannot
TuplePixel(rgb, a) == [c |-> <<rgb[1], rgb[2], rgb[3], a>>, kind |-> "tuple"]
ColorPixel(rgba)   == [c |-> rgba, kind |-> "Color"]
Unbound            == [c |-> <<0, 0, 0, 0>>, kind |-> "unbound"]

\* the bug of admitting x = width and y = height
InBounds_Inclusive(p) ==
    /\ p[1] > -PosDen
    /\ p[1] <= self.imgBound.width * PosDen
    /\ p[2] > -PosDen
    /\ p[2] <= self.imgBound.height * PosDen

\* line 96
InBounds(p) ==
    /\ p[1] > -PosDen
    /\ p[1] < self.imgBound.width * PosDen
    /\ p[2] > -PosDen
    /\ p[2] < self.imgBound.height * PosDen

\* line 97: the truncated coordinates handed to get_at
PixelCoords(p) == <<Truncate(p[1], PosDen), Truncate(p[2], PosDen)>>

\* Surface.get_at raises IndexError outside the surface
ValidCoords(xy) ==
    /\ xy[1] >= 0 /\ xy[1] < img.w
    /\ xy[2] >= 0 /\ xy[2] < img.h

\* the bug of starting from black instead of the background colour
InitialLastGoodPixel_Black == TuplePixel(BLACK, OpaqueAlpha)

\* line 90
InitialLastGoodPixel == TuplePixel(backgroundFrameColor, OpaqueAlpha)

\* the bug of keeping lastGoodPixel from one call to the next
FirstLastGoodPixel_Carried(previous) ==
    IF previous.kind = "unbound" THEN InitialLastGoodPixel ELSE previous

\* line 90 as the call's first value of lastGoodPixel
FirstLastGoodPixel(previous) == InitialLastGoodPixel

\* lines 86-91: the locals on entry of getLedColor
EnterGetLedColor(queryAngle, ledRPosition) ==
    [angle         |-> queryAngle,
     ledRPosition  |-> ledRPosition,
     redValue      |-> 0,
     greenValue    |-> 0,
     blueValue     |-> 0,
     alphaValue    |-> 0,
     lastGoodPixel |-> FirstLastGoodPixel(frame.lastGoodPixel),
     imgPixelColor |-> Unbound,
     averageArea   |-> getLedColorArea(queryAngle, ledRPosition),
     t             |-> 1,
     r             |-> 1,
     error         |-> "none"]

LoopDone(f) == f.t > Len(f.averageArea)

\* lines 96-100: the pixel the point contributes before the alpha test
FetchPixel(f, p) ==
    IF InBounds(p)
    THEN IF ValidCoords(PixelCoords(p))
         THEN ColorPixel(img.px[PixelCoords(p)])
         ELSE [c |-> <<0, 0, 0, 0>>, kind |-> "IndexError"]
    ELSE f.lastGoodPixel

\* lines 104-107: the in-place overwrite of a transparent pixel
Substitute(pixel) ==
    IF pixel.c[4] < 1
    THEN [pixel EXCEPT !.c = <<backgroundFrameColor[1], backgroundFrameColor[2],
                               backgroundFrameColor[3], pixel.c[4]>>]
    ELSE pixel

\* the bug of leaving the alpha weight out
Weighted_Unweighted(pixel, ch) == pixel.c[ch] * AlphaScale

\* lines 108-110: what a pixel adds to one channel, times 255
Weighted(pixel, ch) == pixel.c[ch] * pixel.c[4]

\* one iteration of the inner loop, lines 93-110.  After line 98 or line 100
\* imgPixelColor and lastGoodPixel name the same object, so the overwrite of
\* lines 105-107 shows through both names.
PointStep(f) ==
    LET p     == f.averageArea[f.t][f.r]
        pixel == FetchPixel(f, p)
        last  == (f.r = Len(f.averageArea[f.t]))
        next  == [f EXCEPT !.t = IF last THEN f.t + 1 ELSE f.t,
                           !.r = IF last THEN 1 ELSE f.r + 1]
    IN  IF pixel.kind = "IndexError"
        THEN [f EXCEPT !.error = "IndexError"]
        ELSE IF pixel.c[4] < 1 /\ pixel.kind = "tuple"
        THEN [f EXCEPT !.imgPixelColor = pixel, !.alphaValue = pixel.c[4],
                       !.error = "TypeError"]
        ELSE LET used == Substitute(pixel)
             IN  [next EXCEPT !.imgPixelColor = used,
                              !.lastGoodPixel = used,
                              !.alphaValue    = used.c[4],
                              !.redValue      = f.redValue + Weighted(used, 1),
                              !.greenValue    = f.greenValue + Weighted(used, 2),
                              !.blueValue     = f.blueValue + Weighted(used, 3)]

\* lines 112-117: the returned colour, numerators and denominator
ReturnColor(f) ==
    [rgb   |-> <<f.redValue, f.greenValue, f.blueValue>>,
     den   |-> AlphaScale * self.numberOfAveragedPixels,
     error |-> "none"]

\* a call that ends in an exception returns no colour
Raised(e) == [rgb |-> <<0, 0, 0>>, den |-> 0, error |-> e]

\* lines 92-110: the loops, from the locals f to the locals at their end (or
\* at the exception); g names the locals after one more point
RECURSIVE RunLoop(_)
RunLoop(f) ==
    IF f.error # "none" \/ LoopDone(f) THEN f
    ELSE CHOOSE end \in {RunLoop(g) : g \in {PointStep(f)}} : TRUE

\* the whole call: the colour, or the exception it raises
getLedColor(queryAngle, ledRPosition) ==
    CHOOSE c \in {IF f.error # "none" THEN Raised(f.error) ELSE ReturnColor(f) :
                    f \in {RunLoop(g) : g \in {EnterGetLedColor(queryAngle, ledRPosition)}}} :
        TRUE

(***************************************************************************)
(* ImageToLed.getLedColors                                                 *)
(***************************************************************************)
\* lines 120-121
EnterGetLedColors(angleIncrement, ledRPosition) ==
    [ret |-> <<>>, angle |-> 0, angleIncrement |-> angleIncrement,
     ledRPosition |-> ledRPosition, error |-> "none"]

\* the bug of looping while angle <= 360
SweepDone_Inclusive(s) == ~(s.angle <= FullCircle)

\* line 122
SweepDone(s) == ~(s.angle < FullCircle)

\* lines 123-124: one iteration of the while loop
SweepStep(s) ==
    LET c == getLedColor(s.angle, s.ledRPosition)
    IN  IF c.error # "none"
        THEN [s EXCEPT !.error = c.error]
        ELSE [s EXCEPT !.ret = Append(s.ret, c),
                       !.angle = s.angle + s.angleIncrement]

(***************************************************************************)
(* The inputs the model draws.                                             *)
(***************************************************************************)
Dims == 1..MaxDim

\* four pixels: opaque, fully transparent, half transparent, opaque
Palette ==
    {<<200, 100, 50, 255>>, <<10, 20, 30, 0>>, <<0, 0, 255, 128>>}

Coords(w, h) == (0..(w - 1)) \X (0..(h - 1))

UniformImage(w, h, pixel) ==
    [w |-> w, h |-> h, px |-> [xy \in Coords(w, h) |-> pixel]]

\* every pixel differs from its neighbours in colour, and alpha cycles
\* through 255, 0, 128 along the diagonals
PatternAlpha(k) == IF k % 3 = 0 THEN 255 ELSE IF k % 3 = 1 THEN 0 ELSE 128
PatternImage(w, h) ==
    [w |-> w, h |-> h,
     px |-> [xy \in Coords(w, h) |->
                <<10 + 60 * xy[1], 20 + 60 * xy[2], 7, PatternAlpha(xy[1] + xy[2])>>]]

Images(w, h) == {UniformImage(w, h, pixel) : pixel \in Palette} \cup {PatternImage(w, h)}

Backgrounds == {WHITE, BLUE}
PointRequests == 0..MaxPoints
AngleSpans == {0, 90}
RadialSpans == {0, 2}
QueryAngles == {a \in 0..(FullCircle - 1) : a % AngleGrain = 0}
QueryRadii == 0..MaxRadius
AngleIncrements == {1, 7, 90, 360, 400}

\* the sample angles of the configuration are whole degrees, which is what
\* the sine table covers
WholeDegrees(span, points) ==
    CoercePoints(points) > 1 => span % (CoercePoints(points) - 1) = 0

NoFrame == [angle |-> 0, ledRPosition |-> 0, redValue |-> 0, greenValue |-> 0,
            blueValue |-> 0, alphaValue |-> 0, lastGoodPixel |-> Unbound,
            imgPixelColor |-> Unbound, averageArea |-> <<>>, t |-> 1, r |-> 1,
            error |-> "none"]
NoSweep == [ret |-> <<>>, angle |-> 0, angleIncrement |-> 0, ledRPosition |-> 0,
            error |-> "none"]
NoColor == Raised("no call")
NoArgs == [backgroundFrameWidth |-> 0, numberleds |-> 0, ledradius |-> 0,
           ledseparation |-> 0, angleavgspan |-> 0, angleavgpoints |-> 0,
           radialavgspan |-> 0, radialavgpoints |-> 0, ledcenteroffset |-> 0]
\* the arguments of the constructor, the other arguments left at 0
SamplingArgs ==
    {[NoArgs EXCEPT !.angleavgspan = aspan, !.angleavgpoints = ap,
                    !.radialavgspan = rspan, !.radialavgpoints = rp] :
        <<aspan, ap, rspan, rp>> \in
            {q \in AngleSpans \X PointRequests \X RadialSpans \X PointRequests :
                WholeDegrees(q[1], q[2])}}

NoSelf == [angleAverageResolution |-> <<0, 1>>, rAverageResolution |-> <<0, 1>>,
           angleAveragePoints |-> 0, rAveragePoints |-> 0,
           numberOfAveragedPixels |-> 0, img |-> "None", imgBound |-> "None"]

(***************************************************************************)
(* The sampler driven call by call: a caller constructs an ImageToLed,     *)
(* sets the image, and calls getLedColor with any angle and radius.  One   *)
(* step of the model is one iteration of the loop of getLedColor.          *)
(***************************************************************************)
SamplerInit ==
    /\ pc = "new"
    /\ \E w \in Dims, h \in Dims : img \in Images(w, h)
    /\ backgroundFrameColor \in Backgrounds
    /\ self = NoSelf
    /\ frame = NoFrame
    /\ averageColor = NoColor
    /\ sweep = NoSweep
    /\ args \in SamplingArgs
    /\ ledIdx = 0
    /\ ledColors = <<>>
    /\ angle = 0
    /\ raster = FALSE
    /\ running = FALSE
    /\ drawAverageArea = FALSE
    /\ invoked = {}

\* line 232: imgToLed = ImageToLed(args.angleavgspan, ...)
Construct ==
    /\ pc = "new"
    /\ self' = ImageToLed(args.angleavgspan, args.angleavgpoints,
                          args.radialavgspan, args.radialavgpoints)
    /\ pc' = "constructed"
    /\ invoked' = {"__init__"}
    /\ UNCHANGED <<img, backgroundFrameColor, frame, averageColor, sweep, mainVars>>

\* imgToLed.setImage(img)
SetImage ==
    /\ pc = "constructed"
    /\ self' = setImage(self, img)
    /\ pc' = "ready"
    /\ invoked' = {"setImage"}
    /\ UNCHANGED <<img, backgroundFrameColor, frame, averageColor, sweep, mainVars>>

\* a call of getLedColor: lines 86-91
CallGetLedColor ==
    /\ pc = "ready"
    /\ \E a \in QueryAngles, rpos \in QueryRadii :
          frame' = EnterGetLedColor(a, rpos)
    /\ averageColor' = NoColor
    /\ pc' = "getLedColor"
    /\ invoked' = {"getLedColor", "getLedColorArea"}
    /\ UNCHANGED <<img, backgroundFrameColor, self, sweep, mainVars>>

\* one sample point: lines 93-110
IterateGetLedColor ==
    /\ pc = "getLedColor"
    /\ ~LoopDone(frame)
    /\ frame' = PointStep(frame)
    /\ pc' = IF frame'.error # "none" THEN "raised" ELSE "getLedColor"
    /\ invoked' = {}
    /\ UNCHANGED <<img, backgroundFrameColor, self, averageColor, sweep, mainVars>>

\* lines 112-117
ReturnGetLedColor ==
    /\ pc = "getLedColor"
    /\ LoopDone(frame)
    /\ averageColor' = ReturnColor(frame)
    /\ pc' = "ready"
    /\ invoked' = {}
    /\ UNCHANGED <<img, backgroundFrameColor, self, frame, sweep, mainVars>>

SamplerNext ==
    \/ Construct
    \/ SetImage
    \/ CallGetLedColor
    \/ IterateGetLedColor
    \/ ReturnGetLedColor

SamplerSpec == SamplerInit /\ [][SamplerNext]_vars

(***************************************************************************)
(* The sweep driven call by call: a caller calls getLedColors with any     *)
(* increment and radius.  One step is one iteration of its while loop.     *)
(***************************************************************************)
SweepArgs ==
    {a \in SamplingArgs : a.angleavgspan = 90 /\ a.radialavgspan = 2}

SweepInit ==
    /\ pc = "new"
    /\ img = PatternImage(MaxDim, MaxDim)
    /\ backgroundFrameColor \in Backgrounds
    /\ self = NoSelf
    /\ frame = NoFrame
    /\ averageColor = NoColor
    /\ sweep = NoSweep
    /\ args \in SweepArgs
    /\ ledIdx = 0
    /\ ledColors = <<>>
    /\ angle = 0
    /\ raster = FALSE
    /\ running = FALSE
    /\ drawAverageArea = FALSE
    /\ invoked = {}

\* a call of getLedColors: lines 120-121
CallGetLedColors ==
    /\ pc = "ready"
    /\ \E inc \in AngleIncrements, rpos \in QueryRadii :
          sweep' = EnterGetLedColors(inc, rpos)
    /\ pc' = "getLedColors"
    /\ invoked' = {"getLedColors"}
    /\ UNCHANGED <<img, backgroundFrameColor, self, frame, averageColor, mainVars>>

\* lines 122-124
IterateGetLedColors ==
    /\ pc = "getLedColors"
    /\ ~SweepDone(sweep)
    /\ sweep' = SweepStep(sweep)
    /\ pc' = IF sweep'.error # "none" THEN "raised" ELSE "getLedColors"
    /\ invoked' = {"getLedColor", "getLedColorArea"}
    /\ UNCHANGED <<img, backgroundFrameColor, self, frame, averageColor, mainVars>>

\* line 125
ReturnGetLedColors ==
    /\ pc = "getLedColors"
    /\ SweepDone(sweep)
    /\ pc' = "ready"
    /\ invoked' = {}
    /\ UNCHANGED <<img, backgroundFrameColor, self, frame, averageColor, sweep, mainVars>>

SweepNext ==
    \/ Construct
    \/ SetImage
    \/ CallGetLedColors
    \/ IterateGetLedColors
    \/ ReturnGetLedColors

SweepSpec == SweepInit /\ [][SweepNext]_vars

(***************************************************************************)
(* __main__                                                                *)
(***************************************************************************)
\* line 236
angleIncrement == 1

\* line 235
distanceBetweenLeds == 2 * args.ledradius + args.ledseparation

\* lines 239 and 285
LedRPosition(i) == args.ledcenteroffset + i * distanceBetweenLeds

\* the command lines the model draws: the image is scaled to
\* backgroundFrameWidth x backgroundFrameWidth (line 223)
MainArgs ==
    {[backgroundFrameWidth |-> MaxDim, numberleds |-> n, ledradius |-> 0,
      ledseparation |-> 1, angleavgspan |-> 90, angleavgpoints |-> 3,
      radialavgspan |-> 2, radialavgpoints |-> 3, ledcenteroffset |-> off] :
        n \in 1..MaxLeds, off \in {1}}

\* the state at line 231: the command line is parsed and the image loaded
Init ==
    /\ pc = "new"
    /\ args \in MainArgs
    /\ img = PatternImage(args.backgroundFrameWidth, args.backgroundFrameWidth)
    /\ backgroundFrameColor = WHITE
    /\ self = NoSelf
    /\ frame = NoFrame
    /\ averageColor = NoColor
    /\ sweep = NoSweep
    /\ ledIdx = 0
    /\ ledColors = <<>>
    /\ angle = 0
    /\ raster = FALSE
    /\ running = FALSE
    /\ drawAverageArea = FALSE
    /\ invoked = {}

\* the bug of a loop that stops one LED short
TableBuilt_OneShort == ledIdx >= args.numberleds - 1

\* line 238: the for loop is through
TableBuilt == ledIdx >= args.numberleds

\* lines 238-240: the next LED's sweep is called
TableCall ==
    /\ pc = "ready"
    /\ ~TableBuilt
    /\ sweep' = EnterGetLedColors(angleIncrement, LedRPosition(ledIdx))
    /\ pc' = "getLedColors"
    /\ invoked' = {"getLedColors"}
    /\ UNCHANGED <<img, backgroundFrameColor, self, frame, averageColor, mainVars>>

\* lines 240-241: the sweep returns and its colours are appended
TableAppend ==
    /\ pc = "getLedColors"
    /\ SweepDone(sweep)
    /\ ledColors' = Append(ledColors, sweep.ret)
    /\ ledIdx' = ledIdx + 1
    /\ pc' = "ready"
    /\ invoked' = {}
    /\ UNCHANGED <<img, backgroundFrameColor, self, frame, averageColor, sweep,
                   args, angle, raster, running, drawAverageArea>>

\* lines 243-251: the LedDraw is given the table and the loop is entered
StartLoop ==
    /\ pc = "ready"
    /\ TableBuilt
    /\ angle' = 0
    /\ raster' = FALSE
    /\ running' = TRUE
    /\ drawAverageArea' = TRUE
    /\ pc' = "loop"
    /\ invoked' = {}
    /\ UNCHANGED <<img, backgroundFrameColor, self, frame, averageColor, sweep,
                   args, ledIdx, ledColors>>

\* the events the loop tells apart: QUIT, KEYDOWN of the right, left and up
\* keys, and anything else (here KEYDOWN of the down key)
Events == {"QUIT", "K_RIGHT", "K_LEFT", "K_UP", "K_DOWN"}

EventLists == UNION {[1..n -> Events] : n \in 0..MaxEventsPerFrame}

\* lines 254-263
HandleEvent(st, e) ==
    IF e = "QUIT" THEN [st EXCEPT !.running = FALSE]
    ELSE IF e = "K_RIGHT" THEN [st EXCEPT !.angle = st.angle - angleIncrement]
    ELSE IF e = "K_LEFT" THEN [st EXCEPT !.angle = st.angle + angleIncrement]
    ELSE IF e = "K_UP" THEN [st EXCEPT !.raster = ~st.raster]
    ELSE st

\* line 253
RECURSIVE HandleEvents(_, _)
HandleEvents(st, evs) ==
    IF evs = <<>> THEN st
    ELSE HandleEvents(HandleEvent(st, Head(evs)), Tail(evs))

\* lines 265-268
WrapAngle(a) ==
    LET a1 == IF a = FullCircle THEN 0 ELSE a
    IN  IF a1 = -1 THEN FullCircle - 1 ELSE a1

\* a Python list index: negative indices count from the end
ValidIndex(list, i) == -Len(list) <= i /\ i < Len(list)

\* lines 159 and 182: int(angle / self.angleIncrement)
AngleIdx(a) == Truncate(a, angleIncrement)

\* lines 167-169 and 183 for every LED: ledColors[ledIdx][angleIdx] exists
LookupOK(a) ==
    \A i \in 0..(args.numberleds - 1) :
        /\ ValidIndex(ledColors, i)
        /\ ValidIndex(ledColors[i + 1], AngleIdx(a))

\* lines 275-296: what the frame draws raises nothing.  In raster mode the
\* angles of range(360) are looked up: they all exist when the first and the
\* last do.
DrawOK(a, rasterMode) ==
    IF rasterMode
    THEN LookupOK(0) /\ LookupOK(FullCircle - 1)
    ELSE LookupOK(a)

\* lines 282-286: the methods of the sampler a frame calls
FrameCalls(rasterMode, overlay) ==
    IF ~rasterMode /\ overlay /\ args.numberleds > 0
    THEN {"getLedColorArea"} ELSE {}

\* one iteration of the loop of line 252, given the pending events
Frame(evs) ==
    /\ pc = "loop"
    /\ LET st == HandleEvents([angle |-> angle, raster |-> raster,
                               running |-> running], evs)
           a  == WrapAngle(st.angle)
       IN  /\ a <= MaxAngle /\ -a <= MaxAngle
           /\ angle' = a
           /\ raster' = st.raster
           /\ running' = st.running
           /\ IF DrawOK(a, st.raster)
              THEN /\ pc' = IF st.running THEN "loop" ELSE "quit"
                   /\ invoked' = FrameCalls(st.raster, drawAverageArea)
              ELSE /\ pc' = "crashed"
                   /\ invoked' = {}
    /\ UNCHANGED <<img, backgroundFrameColor, self, frame, averageColor, sweep,
                   args, ledIdx, ledColors, drawAverageArea>>

Next ==
    \/ Construct
    \/ SetImage
    \/ TableCall
    \/ IterateGetLedColors
    \/ TableAppend
    \/ StartLoop
    \/ \E evs \in EventLists : Frame(evs)

Spec == Init /\ [][Next]_vars

\* the program keeps running (it never blocks), and the user keeps pressing
\* every key: each single-key frame that stays possible is taken again and
\* again
FairSpec ==
    /\ Spec
    /\ WF_vars(Next)
    /\ \A e \in Events \ {"QUIT"} : SF_vars(Frame(<<e>>))

(***************************************************************************)
(* Notions the properties below are stated with.                           *)
(***************************************************************************)
\* the footprint of the running or last call, in traversal order
PointCount(f) == Len(f.averageArea) * self.rAveragePoints
PointAt(f, k) ==
    f.averageArea[((k - 1) \div self.rAveragePoints) + 1]
                 [((k - 1) % self.rAveragePoints) + 1]

\* how many points of the footprint the loop has been through
Processed(f) == (f.t - 1) * self.rAveragePoints + (f.r - 1)

\* the in-bounds points visited before point k of the call
InBoundsBefore(f, k) == {j \in 1..(k - 1) : InBounds(PointAt(f, j))}
Latest(S) == CHOOSE j \in S : \A i \in S : i <= j

\* the image pixel under an in-bounds point, as the image holds it
ImagePixel(p) == img.px[PixelCoords(p)]

\* a getLedColor call has returned a colour
Returned == pc = "ready" /\ averageColor.error = "none"

\* the returned colour is exactly rgb
ColorIs(c, rgb) == \A ch \in 1..3 : c.rgb[ch] = rgb[ch] * c.den

SinglePixelOpaque == img.w = 1 /\ img.h = 1 /\ img.px[<<0, 0>>][4] = 255
PixelRGB == <<img.px[<<0, 0>>][1], img.px[<<0, 0>>][2], img.px[<<0, 0>>][3]>>

\* the points visited before the first in-bounds point (all of them when
\* no point is in-bounds)
LeadingOutOfBounds(f) ==
    Cardinality({k \in 1..PointCount(f) : InBoundsBefore(f, k + 1) = {}})

(***************************************************************************)
(* C1 as stated: on a 1x1 image whose pixel is opaque, getLedColor returns *)
(* exactly the colour of that pixel, for every angle, radius, sampling     *)
(* configuration and background colour.                                    *)
(***************************************************************************)
C1_ExactColorAlways ==
    (Returned /\ SinglePixelOpaque) => ColorIs(averageColor, PixelRGB)

(***************************************************************************)
(* C1 as amended: on a 1x1 image whose pixel is opaque, every channel of   *)
(* the colour getLedColor returns is (k * B + (n - k) * P) / n, where P is *)
(* the pixel's channel, B the background's, n the number of footprint      *)
(* points and k the number of points visited before the first in-bounds    *)
(* point; so the colour is exactly the pixel's when the first point of the *)
(* footprint is in-bounds or the background has the pixel's colour.        *)
(***************************************************************************)
C1_ExactColorAfterFirstInBounds ==
    (Returned /\ SinglePixelOpaque) =>
        LET n == PointCount(frame)
            k == LeadingOutOfBounds(frame)
        IN  /\ averageColor.den = AlphaScale * n
            /\ \A ch \in 1..3 :
                  averageColor.rgb[ch] =
                      AlphaScale * (k * backgroundFrameColor[ch] + (n - k) * PixelRGB[ch])
            /\ (k = 0 \/ backgroundFrameColor = PixelRGB)
                  => ColorIs(averageColor, PixelRGB)

\* a returned call on a 1x1 opaque image whose footprint starts in-bounds and
\* leaves the image later, with a background of another colour
C1_Witness ==
    /\ Returned /\ SinglePixelOpaque
    /\ backgroundFrameColor # PixelRGB
    /\ LeadingOutOfBounds(frame) = 0
    /\ \E k \in 1..PointCount(frame) : ~InBounds(PointAt(frame, k))
    /\ ColorIs(averageColor, PixelRGB)

(***************************************************************************)
(* C2: in one getLedColor call an out-of-bounds point contributes the      *)
(* pixel of the latest in-bounds point visited before it in that call, and *)
(* the background colour with alpha 255 when there is none; nothing of an  *)
(* earlier call is used.                                                   *)
(***************************************************************************)
FallbackPixel(f, k) ==
    IF InBoundsBefore(f, k) = {}
    THEN <<backgroundFrameColor[1], backgroundFrameColor[2],
           backgroundFrameColor[3], 255>>
    ELSE ImagePixel(PointAt(f, Latest(InBoundsBefore(f, k))))

OutOfBoundsStep ==
    /\ pc = "getLedColor" /\ pc' = "getLedColor"
    /\ Processed(frame') = Processed(frame) + 1
    /\ ~InBounds(PointAt(frame, Processed(frame) + 1))

C3_Total ==
    /\ pc # "raised"
    /\ frame.error = "none"
    /\ pc \in {"getLedColor", "ready"} =>
          \A k \in 1..PointCount(frame) :
              InBounds(PointAt(frame, k)) => ValidCoords(PixelCoords(PointAt(frame, k)))
    /\ frame.imgPixelColor.kind = "tuple" => frame.imgPixelColor.c[4] >= 1

\* a point with a negative coordinate passed the bounds test and its pixel
\* was looked up
C3_Witness ==
    /\ pc = "getLedColor"
    /\ Processed(frame) >= 1
    /\ LET p == PointAt(frame, Processed(frame))
       IN  /\ InBounds(p)
           /\ p[1] < 0
           /\ frame.imgPixelColor.kind = "Color"

(***************************************************************************)
(* C8: on an image whose pixels all have alpha 0, a call whose footprint   *)
(* lies in-bounds returns (0, 0, 0), whatever the background colour.       *)
(***************************************************************************)
AllTransparent == \A xy \in DOMAIN img.px : img.px[xy][4] = 0
FootprintInBounds(f) == \A k \in 1..PointCount(f) : InBounds(PointAt(f, k))

OddFrom(request, count) ==
    /\ count % 2 = 1
    /\ count >= 1
    /\ count = IF request % 2 = 0 THEN request + 1 ELSE request

StepOf(res, span, count) ==
    IF count > 1 THEN res[1] * (count - 1) = span * res[2] ELSE res[1] = 0

Projection(queryAngle, ledRPosition) ==
    LET d2 == 2 * self.rAverageResolution[2] * ledRPosition
    IN  <<self.imgBound.centerx * PosDen + d2 * Cos(queryAngle),
          self.imgBound.height * PosDen
              - (self.imgBound.centery * PosDen + d2 * Sin(queryAngle))>>

SweepReturned == pc = "ready" /\ sweep.angleIncrement >= 1

C4_SweepResult ==
    (pc = "getLedColors" \/ SweepReturned) =>
        LET s == sweep.angleIncrement
            n == Len(sweep.ret)
        IN  /\ sweep.angle = n * s
            /\ n >= 1 =>
                  /\ (n - 1) * s < 360
                  /\ sweep.ret[n] = getLedColor((n - 1) * s, sweep.ledRPosition)
            /\ SweepReturned =>
                  /\ n = (360 + s - 1) \div s
                  /\ s = 1 => n = 360
                  /\ \A k \in 0..(n - 1) :
                        sweep.ret[k + 1] = getLedColor(k * s, sweep.ledRPosition)

\* a sweep of increment 1 returned 360 colours that are not all the same,
\* from calls that raised nothing
C4_Witness ==
    /\ SweepReturned
    /\ sweep.angleIncrement = 1
    /\ Len(sweep.ret) = 360
    /\ sweep.ret[1].error = "none"
    /\ \E i \in 1..360 : sweep.ret[i] # sweep.ret[1]

(***************************************************************************)
(* C5: whatever keys are pressed, several in one frame included, the       *)
(* display angle every frame draws with is in 0..359, so the lookups of    *)
(* drawLed and drawAveragedAreas are at an index 0..359 and none fails.    *)
(***************************************************************************)
C5_AngleWraps ==
    pc \in {"loop", "quit", "crashed"} =>
        /\ angle \in 0..359
        /\ AngleIdx(angle) \in 0..359
        /\ pc # "crashed"

(***************************************************************************)
(* C6 as stated: the table is complete, one sweep of 360 colours per LED,  *)
(* when the loop is entered; from then on no method of the sampler is      *)
(* called and the table is not written.                                    *)
(***************************************************************************)
TableComplete ==
    /\ Len(ledColors) = args.numberleds
    /\ \A i \in 1..Len(ledColors) :
          /\ Len(ledColors[i]) = 360
          /\ \A a \in {0, 1, 179, 359} :
                ledColors[i][a + 1] = getLedColor(a, LedRPosition(i - 1))

EntersLoop == pc # "loop" /\ pc' = "loop"

C7_OverlayCanBeSwitchedOff ==
    <>(pc \in {"quit", "crashed"} \/ (pc = "loop" /\ ~drawAverageArea /\ ~raster))

====
